---- MODULE Spec2Model ----
(***************************************************************************)
(* Model of the watchlist CLI (src/src/watchlist.ts): five commands, each  *)
(* a one-shot process that validates its argument, issues one read         *)
(* against the remote "watchlist" table and, for add/toggle/remove, one    *)
(* write.  The remote table is the only shared state.  Strings are         *)
(* sequences of one-character strings so that length, parsing, formatting  *)
(* and pattern matching are computed rather than assumed.                  *)
(***************************************************************************)
EXTENDS Integers, Sequences, FiniteSets, TLC

VARIABLES idKind, store, issued, proc, hist

vars == <<idKind, store, issued, proc, hist>>

(* ------------------------------ bounds --------------------------------- *)

\* Rows the remote store creates in one behaviour (ids are never reused).
MaxIssued == 2

\* Client processes that may run commands against the same store.
Clients == {"c1", "c2"}

(* ------------------------- program constants --------------------------- *)

MinTitleLen == 1
MaxTitleLen == 250
Radix == 10

(* ------------------------------ strings -------------------------------- *)

Digits == <<"0", "1", "2", "3", "4", "5", "6", "7", "8", "9">>

IsDigit(ch) == \E d \in 1..Radix : Digits[d] = ch

DigitVal(ch) == (CHOOSE d \in 1..Radix : Digits[d] = ch) - 1

IsSpace(ch) == ch = " "

Rep(ch, n) == [i \in 1..n |-> ch]

RECURSIVE SkipSpaces(_)
SkipSpaces(s) ==
    IF s # <<>> /\ IsSpace(Head(s)) THEN SkipSpaces(Tail(s)) ELSE s

RECURSIVE DropTrailingSpaces(_)
DropTrailingSpaces(s) ==
    IF s # <<>> /\ IsSpace(s[Len(s)])
    THEN DropTrailingSpaces(SubSeq(s, 1, Len(s) - 1))
    ELSE s

\* String.prototype.trim, used to read the claims' "trimmed length".
Trim(s) == DropTrailingSpaces(SkipSpaces(s))

\* The longest prefix of decimal digits of s.
RECURSIVE DigitPrefix(_)
DigitPrefix(s) ==
    IF s # <<>> /\ IsDigit(Head(s))
    THEN <<Head(s)>> \o DigitPrefix(Tail(s))
    ELSE <<>>

\* The value of a sequence of decimal digits.
RECURSIVE DigitsValue(_)
DigitsValue(ds) ==
    IF ds = <<>> THEN 0
    ELSE Radix * DigitsValue(SubSeq(ds, 1, Len(ds) - 1)) + DigitVal(ds[Len(ds)])

\* Number -> decimal string, as a template literal or a URL parameter does.
RECURSIVE ToStr(_)
ToStr(n) ==
    IF n < 0 THEN <<"-">> \o ToStr(0 - n)
    ELSE IF n < Radix THEN <<Digits[n + 1]>>
    ELSE ToStr(n \div Radix) \o <<Digits[(n % Radix) + 1]>>

\* parseInt(id, 10): leading white space skipped, an optional sign, then the
\* longest run of digits; whatever follows the digits is ignored; NaN when
\* there is no digit.
parseInt(s) ==
    LET t    == SkipSpaces(s)
        neg  == t # <<>> /\ Head(t) = "-"
        body == IF t # <<>> /\ Head(t) \in {"-", "+"} THEN Tail(t) ELSE t
        ds   == DigitPrefix(body)
    IN  IF ds = <<>> THEN [nan |-> TRUE, val |-> 0]
        ELSE [nan |-> FALSE,
              val |-> IF neg THEN 0 - DigitsValue(ds) ELSE DigitsValue(ds)]

\* isNaN(itemId)
isNaN(n) == n.nan

LowerChar(ch) ==
    CASE ch = "A" -> "a"
      [] ch = "B" -> "b"
      [] OTHER    -> ch

Lower(s) == [i \in 1..Len(s) |-> LowerChar(s[i])]

(* --------------------------- command arguments ------------------------- *)

\* Identifiers in the README's UUID format, abstracted to two characters: a
\* letter and a digit in either order, so that some start with a digit.
IsHexLetter(ch) == ch \in {"c", "e", "f"}

IsUuid(s) ==
    /\ Len(s) = 2
    /\ \/ IsHexLetter(s[1]) /\ IsDigit(s[2])
       \/ IsDigit(s[1]) /\ IsHexLetter(s[2])

\* The values gen_random_uuid() may return.
UuidPool ==
    {IF i % 2 = 1 THEN <<"c">> \o ToStr(i % Radix) ELSE ToStr(i % Radix) \o <<"f">> :
        i \in 1..MaxIssued}

TooLong == Rep("a", MaxTitleLen + 1)

\* <title> arguments of "add".
TitleArgs == {<<>>, <<" ">>, <<"A", "b">>, <<"b">>, TooLong}

\* <id> arguments of "toggle" and "remove".
IdArgs ==
    {ToStr(i) : i \in 1..MaxIssued}
        \cup {<<"a", "b", "c">>, <<"1", "a", "b", "c">>}
        \cup UuidPool

\* <query> arguments of "search".
QueryArgs == {<<"a", "B">>, <<"b">>, <<"_">>, <<"%">>}

(* ----------------------------- remote store ---------------------------- *)

\* A response of the query API: { data, error }.
Failure == [error |-> TRUE, rows |-> {}]

Ok(rows) == [error |-> FALSE, rows |-> rows]

\* Input conversion of an integer column: optional sign, then digits only.
PgInt(s) ==
    LET t    == Trim(s)
        neg  == t # <<>> /\ Head(t) = "-"
        body == IF t # <<>> /\ Head(t) \in {"-", "+"} THEN Tail(t) ELSE t
    IN  IF body # <<>> /\ \A i \in 1..Len(body) : IsDigit(body[i])
        THEN [ok |-> TRUE,
              val |-> IF neg THEN 0 - DigitsValue(body) ELSE DigitsValue(body)]
        ELSE [ok |-> FALSE, val |-> 0]

\* .eq("id", key): the key travels as text and is converted to the type of
\* the id column; a key that does not convert is a query error.
EqId(key) ==
    IF idKind = "numeric"
    THEN IF PgInt(key).ok
         THEN Ok({r \in store : r.id = PgInt(key).val})
         ELSE Failure
    ELSE IF IsUuid(key)
         THEN Ok({r \in store : r.id = key})
         ELSE Failure

\* Mutant: the lookup compares against the lower-cased title.
EqTitleLowered(title) == Ok({r \in store : r.title = Lower(title)})

\* .eq("title", title)
EqTitle(title) == Ok({r \in store : r.title = title})

\* SQL LIKE: % matches any run of characters, _ any one character.
RECURSIVE Like(_, _)
Like(s, p) ==
    IF p = <<>> THEN s = <<>>
    ELSE IF Head(p) = "%"
         THEN \/ Tail(p) = <<>>
              \/ Like(s, Tail(p))
              \/ s # <<>> /\ Like(Tail(s), p)
    ELSE IF s = <<>> THEN FALSE
    ELSE IF Head(p) = "_" THEN Like(Tail(s), Tail(p))
    ELSE Head(s) = Head(p) /\ Like(Tail(s), Tail(p))

\* .ilike("title", pattern)
ilike(pattern) == Ok({r \in store : Like(Lower(r.title), Lower(pattern))})

\* Mutant: .single(), for which no row is an error too.
maybeSingleStrict(res) ==
    IF res.error \/ Cardinality(res.rows) # 1
    THEN [error |-> TRUE, found |-> FALSE, watched |-> FALSE]
    ELSE [error |-> FALSE, found |-> TRUE,
          watched |-> (CHOOSE r \in res.rows : TRUE).watched]

\* Mutant: the error of the response is dropped and read as "no row".
maybeSingleDropError(res) ==
    IF res.error \/ res.rows = {}
    THEN [error |-> FALSE, found |-> FALSE, watched |-> FALSE]
    ELSE [error |-> FALSE, found |-> TRUE,
          watched |-> (CHOOSE r \in res.rows : TRUE).watched]

\* .maybeSingle(): null for no row, the row for one, an error for more.
maybeSingle(res) ==
    IF res.error \/ Cardinality(res.rows) > 1
    THEN [error |-> TRUE, found |-> FALSE, watched |-> FALSE]
    ELSE IF res.rows = {}
    THEN [error |-> FALSE, found |-> FALSE, watched |-> FALSE]
    ELSE [error |-> FALSE, found |-> TRUE,
          watched |-> (CHOOSE r \in res.rows : TRUE).watched]

\* Mutant: ascending order.
RECURSIVE orderAscending(_)
orderAscending(rows) ==
    IF rows = {} THEN <<>>
    ELSE LET m == CHOOSE r \in rows : \A q \in rows : q.created_at >= r.created_at
         IN  <<m>> \o orderAscending(rows \ {m})

\* .order("created_at", { ascending: false })
RECURSIVE order(_)
order(rows) ==
    IF rows = {} THEN <<>>
    ELSE LET m == CHOOSE r \in rows : \A q \in rows : q.created_at <= r.created_at
         IN  <<m>> \o order(rows \ {m})

\* .select("id, title, watched")
Project(rows) == {[id |-> r.id, title |-> r.title, watched |-> r.watched] : r \in rows}

\* The ids the store may give the next row: the next serial number, or any
\* UUID not handed out before.
NewIds ==
    IF idKind = "numeric" THEN {Cardinality(issued) + 1} ELSE UuidPool \ issued

\* `${id}` as list and search print it.
Display(id) == IF idKind = "numeric" THEN ToStr(id) ELSE id

(* ------------------------------ processes ------------------------------ *)

\* z.object({ title: z.string().min(1).max(250) }).parse({ title }) succeeds.
watchlistSchema(title) == Len(title) >= MinTitleLen /\ Len(title) <= MaxTitleLen

Idle ==
    [pc |-> "idle", cmd |-> "none", arg |-> <<>>, key |-> <<>>, watched |-> FALSE,
     msg |-> "none", listed |-> <<>>, matches |-> {}, calls |-> <<>>,
     readErr |-> FALSE, netFail |-> FALSE]

\* A process is started for one command; the client's previous process, if
\* any, has printed its message and exited.
CanStart(c) == proc[c].pc \in {"idle", "done"}

NewCmd(c, cmd, arg) == [Idle EXCEPT !.pc = "done", !.cmd = cmd, !.arg = arg]

Set(c, rec) == proc' = [proc EXCEPT ![c] = rec]

\* Inserts the store can still serve within MaxIssued.
HasCapacity ==
    Cardinality(issued) + Cardinality({c \in Clients : proc[c].pc = "insert"}) < MaxIssued

\* add <title>, up to the response of the existence read.
Add(c, title) ==
    /\ CanStart(c)
    /\ \E fail \in BOOLEAN :
        LET b        == NewCmd(c, "add", title)
            res      == IF fail THEN Failure ELSE EqTitle(title)
            existing == maybeSingle(res)
            sent     == [b EXCEPT !.calls = <<"select">>, !.netFail = fail,
                                  !.readErr = res.error \/ existing.error]
        IN  IF ~watchlistSchema(title)
            THEN Set(c, [b EXCEPT !.msg = "ValidationError"])
            ELSE IF existing.error
            THEN Set(c, [sent EXCEPT !.msg = "RemoteError"])
            ELSE IF existing.found
            THEN Set(c, [sent EXCEPT !.msg = "AlreadyExists"])
            ELSE HasCapacity /\ Set(c, [sent EXCEPT !.pc = "insert"])
    /\ UNCHANGED <<idKind, store, issued>>

\* add <title>, the insert and its response.
AddInsert(c) ==
    /\ proc[c].pc = "insert"
    /\ \E fail \in BOOLEAN :
        LET sent == [proc[c] EXCEPT !.pc = "done",
                                    !.calls = Append(@, "insert"),
                                    !.netFail = @ \/ fail]
        IN  IF fail
            THEN /\ Set(c, [sent EXCEPT !.msg = "RemoteError"])
                 /\ UNCHANGED <<store, issued>>
            ELSE \E id \in NewIds :
                    /\ store' = store \cup
                         {[id |-> id, title |-> proc[c].arg, watched |-> FALSE,
                           created_at |-> Cardinality(issued) + 1]}
                    /\ issued' = issued \cup {id}
                    /\ Set(c, [sent EXCEPT !.msg = "Added"])
    /\ UNCHANGED idKind

\* list
List(c) ==
    /\ CanStart(c)
    /\ \E fail \in BOOLEAN :
        LET b    == NewCmd(c, "list", <<>>)
            sent == [b EXCEPT !.calls = <<"select">>, !.netFail = fail]
            data == order(store)
        IN  IF fail
            THEN Set(c, [sent EXCEPT !.readErr = TRUE, !.msg = "RemoteError"])
            ELSE IF Len(data) = 0
            THEN Set(c, [sent EXCEPT !.msg = "Empty"])
            ELSE Set(c, [sent EXCEPT !.msg = "Listed", !.listed = data])
    /\ UNCHANGED <<idKind, store, issued>>

\* toggle <id>, up to the response of the read of "watched".
Toggle(c, id) ==
    /\ CanStart(c)
    /\ \E fail \in BOOLEAN :
        LET b    == NewCmd(c, "toggle", id)
            res  == IF fail THEN Failure ELSE EqId(id)
            item == maybeSingle(res)
            sent == [b EXCEPT !.calls = <<"select">>, !.netFail = fail, !.key = id,
                              !.readErr = res.error \/ item.error]
        IN  IF item.error
            THEN Set(c, [sent EXCEPT !.msg = "RemoteError"])
            ELSE IF ~item.found
            THEN Set(c, [sent EXCEPT !.msg = "NotFound"])
            ELSE Set(c, [sent EXCEPT !.pc = "update", !.watched = item.watched])
    /\ UNCHANGED <<idKind, store, issued>>

\* Mutant: the update writes watched: true whatever was read.
ToggleUpdateMarkWatched(c) ==
    /\ proc[c].pc = "update"
    /\ \E fail \in BOOLEAN :
        LET sent   == [proc[c] EXCEPT !.pc = "done",
                                      !.calls = Append(@, "update"),
                                      !.netFail = @ \/ fail]
            target == IF fail THEN Failure ELSE EqId(proc[c].key)
        IN  IF target.error
            THEN /\ Set(c, [sent EXCEPT !.msg = "RemoteError"])
                 /\ UNCHANGED store
            ELSE /\ store' = {IF r \in target.rows
                              THEN [r EXCEPT !.watched = TRUE]
                              ELSE r : r \in store}
                 /\ Set(c, [sent EXCEPT !.msg = "Toggled"])
    /\ UNCHANGED <<idKind, issued>>

\* Mutant: the update negates the stored value in the store itself.
ToggleUpdateInPlace(c) ==
    /\ proc[c].pc = "update"
    /\ \E fail \in BOOLEAN :
        LET sent   == [proc[c] EXCEPT !.pc = "done",
                                      !.calls = Append(@, "update"),
                                      !.netFail = @ \/ fail]
            target == IF fail THEN Failure ELSE EqId(proc[c].key)
        IN  IF target.error
            THEN /\ Set(c, [sent EXCEPT !.msg = "RemoteError"])
                 /\ UNCHANGED store
            ELSE /\ store' = {IF r \in target.rows
                              THEN [r EXCEPT !.watched = ~r.watched]
                              ELSE r : r \in store}
                 /\ Set(c, [sent EXCEPT !.msg = "Toggled"])
    /\ UNCHANGED <<idKind, issued>>

\* toggle <id>, the update and its response.
ToggleUpdate(c) ==
    /\ proc[c].pc = "update"
    /\ \E fail \in BOOLEAN :
        LET sent   == [proc[c] EXCEPT !.pc = "done",
                                      !.calls = Append(@, "update"),
                                      !.netFail = @ \/ fail]
            target == IF fail THEN Failure ELSE EqId(proc[c].key)
        IN  IF target.error
            THEN /\ Set(c, [sent EXCEPT !.msg = "RemoteError"])
                 /\ UNCHANGED store
            ELSE /\ store' = {IF r \in target.rows
                              THEN [r EXCEPT !.watched = ~proc[c].watched]
                              ELSE r : r \in store}
                 /\ Set(c, [sent EXCEPT !.msg = "Toggled"])
    /\ UNCHANGED <<idKind, issued>>

\* remove <id>, up to the response of the existence read.
Remove(c, id) ==
    /\ CanStart(c)
    /\ \E fail \in BOOLEAN :
        LET b            == NewCmd(c, "remove", id)
            itemId       == parseInt(id)
            key          == ToStr(itemId.val)
            res          == IF fail THEN Failure ELSE EqId(key)
            existingItem == maybeSingle(res)
            sent         == [b EXCEPT !.calls = <<"select">>, !.netFail = fail,
                                      !.key = key,
                                      !.readErr = res.error \/ existingItem.error]
        IN  IF isNaN(itemId)
            THEN Set(c, [b EXCEPT !.msg = "InvalidId"])
            ELSE IF existingItem.error
            THEN Set(c, [sent EXCEPT !.msg = "RemoteError"])
            ELSE IF ~existingItem.found
            THEN Set(c, [sent EXCEPT !.msg = "NotFound"])
            ELSE Set(c, [sent EXCEPT !.pc = "delete"])
    /\ UNCHANGED <<idKind, store, issued>>

\* remove <id>, the delete and its response.
RemoveDelete(c) ==
    /\ proc[c].pc = "delete"
    /\ \E fail \in BOOLEAN :
        LET sent   == [proc[c] EXCEPT !.pc = "done",
                                      !.calls = Append(@, "delete"),
                                      !.netFail = @ \/ fail]
            target == IF fail THEN Failure ELSE EqId(proc[c].key)
        IN  IF target.error
            THEN /\ Set(c, [sent EXCEPT !.msg = "RemoteError"])
                 /\ UNCHANGED store
            ELSE /\ store' = store \ target.rows
                 /\ Set(c, [sent EXCEPT !.msg = "Removed"])
    /\ UNCHANGED <<idKind, issued>>

\* search <query>
Search(c, query) ==
    /\ CanStart(c)
    /\ \E fail \in BOOLEAN :
        LET b    == NewCmd(c, "search", query)
            sent == [b EXCEPT !.calls = <<"select">>, !.netFail = fail]
            res  == IF fail THEN Failure ELSE ilike(<<"%">> \o query \o <<"%">>)
            data == Project(res.rows)
        IN  IF res.error
            THEN Set(c, [sent EXCEPT !.readErr = TRUE, !.msg = "RemoteError"])
            ELSE IF Cardinality(data) = 0
            THEN Set(c, [sent EXCEPT !.msg = "NoMatches"])
            ELSE Set(c, [sent EXCEPT !.msg = "Found", !.matches = data])
    /\ UNCHANGED <<idKind, store, issued>>

(* --------------------------- specifications ---------------------------- *)

NoToggle == [some |-> FALSE, arg |-> <<>>, pre |-> {}]

\* The id column is the store owner's choice: the README creates it as a
\* UUID, remove's parseInt expects a number.
Init ==
    /\ idKind \in {"numeric", "uuid"}
    /\ store = {}
    /\ issued = {}
    /\ proc = [c \in Clients |-> Idle]
    /\ hist = [pre |-> {}, prev |-> NoToggle]

\* History of the single user's commands: the store when the command in
\* hand started, and the command before it when that was a successful toggle.
Record(c) ==
    hist' = IF CanStart(c)
            THEN [pre  |-> store,
                  prev |-> IF proc[c].msg = "Toggled"
                           THEN [some |-> TRUE, arg |-> proc[c].arg, pre |-> hist.pre]
                           ELSE NoToggle]
            ELSE hist

\* One user: commands run one at a time.
Next ==
    \/ \E title \in TitleArgs : Add("c1", title) /\ Record("c1")
    \/ AddInsert("c1") /\ Record("c1")
    \/ List("c1") /\ Record("c1")
    \/ \E id \in IdArgs : Toggle("c1", id) /\ Record("c1")
    \/ ToggleUpdate("c1") /\ Record("c1")
    \/ \E id \in IdArgs : Remove("c1", id) /\ Record("c1")
    \/ RemoveDelete("c1") /\ Record("c1")
    \/ \E query \in QueryArgs : Search("c1", query) /\ Record("c1")

Spec == Init /\ [][Next]_vars

\* Arguments of the commands that race: one valid title, the ids on display.
RaceTitleArgs == {<<"b">>}

RaceIdArgs == {ToStr(i) : i \in 1..MaxIssued} \cup UuidPool

StepConc(c) ==
    \/ \E title \in RaceTitleArgs : Add(c, title) /\ UNCHANGED hist
    \/ AddInsert(c) /\ UNCHANGED hist
    \/ \E id \in RaceIdArgs : Toggle(c, id) /\ UNCHANGED hist
    \/ ToggleUpdate(c) /\ UNCHANGED hist
    \/ \E id \in RaceIdArgs : Remove(c, id) /\ UNCHANGED hist
    \/ RemoveDelete(c) /\ UNCHANGED hist

\* Several users of one store: their commands interleave at the remote calls.
NextConc == \E c \in Clients : StepConc(c)

SpecConc == Init /\ [][NextConc]_vars

(* -------------------------------- claims ------------------------------- *)

\* The single user's process.
Me == proc["c1"]

Writes == {"insert", "update", "delete"}

Issued(p, call) == \E i \in 1..Len(p.calls) : p.calls[i] = call

\* The rows an <id> argument names: those list displays under that id.
Named(rows, id) == {r \in rows : Display(r.id) = id}

\* q occurs in t as a substring, letter case ignored.
Contains(t, q) ==
    \E i \in 1..(Len(t) + 1) :
        /\ i + Len(q) - 1 <= Len(t)
        /\ Lower(SubSeq(t, i, i + Len(q) - 1)) = Lower(q)

IsDecimal(s) == s # <<>> /\ \A i \in 1..Len(s) : IsDigit(s[i])

\* C1: add of a title whose trimmed length is 0 or above 250 is rejected with
\* a validation error before any remote call, and no stored title is empty or
\* white space only.
C1_BlankOrLongTitleRejected ==
    /\ (Me.cmd = "add" /\ (Len(Trim(Me.arg)) = 0 \/ Len(Trim(Me.arg)) > MaxTitleLen))
          => (Me.pc = "done" /\ Me.msg = "ValidationError" /\ Me.calls = <<>>)
    /\ \A r \in store : Len(Trim(r.title)) > 0

\* C2: with one user, no two stored items share a title; add of a title that
\* is already stored issues no insert, leaves the store as it was and reports
\* "already exists" (the store's error when the existence read fails).
C2_NoDuplicateTitle ==
    /\ \A r, q \in store : r.title = q.title => r = q
    /\ (Me.cmd = "add" /\ \E r \in hist.pre : r.title = Me.arg)
          => /\ Me.pc = "done"
             /\ ~Issued(Me, "insert")
             /\ store = hist.pre
             /\ Me.msg = IF Me.netFail THEN "RemoteError" ELSE "AlreadyExists"

C2_Witness ==
    /\ Me.cmd = "add" /\ Me.msg = "AlreadyExists"
    /\ \E r \in store : r.title = Me.arg

\* The store after the watched flag of row r alone is negated.
Flipped(rows, r) == (rows \ {r}) \cup {[r EXCEPT !.watched = ~r.watched]}

\* C3: with one user and no remote error, toggle of a stored item issues one
\* update that negates its watched flag and changes nothing else, and a second
\* toggle of the same id right after it restores the store.
C3_ToggleFlipsOnce ==
    \A r \in Named(hist.pre, Me.arg) :
        (Me.cmd = "toggle" /\ Me.pc = "done" /\ ~Me.netFail)
            => /\ Me.msg = "Toggled"
               /\ Me.calls = <<"select", "update">>
               /\ store = Flipped(hist.pre, r)
               /\ (hist.prev.some /\ hist.prev.arg = Me.arg) => store = hist.prev.pre

C3_Witness ==
    /\ Me.cmd = "toggle" /\ Me.msg = "Toggled"
    /\ hist.prev.some /\ hist.prev.arg = Me.arg
    /\ Cardinality(store) > 1
    /\ store = hist.prev.pre /\ store # hist.pre

\* C4: toggle of an id that names no stored item issues no update, leaves the
\* store as it was and reports "not found" (the store's error when the read
\* fails: no connection, or an id the id column cannot hold).
C4_ToggleMissing ==
    (Me.cmd = "toggle" /\ Named(hist.pre, Me.arg) = {})
        => /\ Me.pc = "done"
           /\ ~Issued(Me, "update")
           /\ store = hist.pre
           /\ Me.msg = IF Me.netFail \/ EqId(Me.arg).error
                       THEN "RemoteError" ELSE "NotFound"

C4_Witness ==
    /\ Me.cmd = "toggle" /\ Me.msg = "NotFound"
    /\ store # {} /\ Named(store, Me.arg) = {}

\* C5: remove of an id that is not wholly a decimal integer fails validation
\* before any remote call; remove of a number that names no stored item
\* reports "not found" and issues no delete (the store's error when the read
\* fails).
C5_RemoveValidates ==
    /\ (Me.cmd = "remove" /\ ~IsDecimal(Me.arg))
          => (Me.pc = "done" /\ Me.msg = "InvalidId" /\ Me.calls = <<>>)
    /\ (Me.cmd = "remove" /\ IsDecimal(Me.arg) /\ Named(hist.pre, Me.arg) = {}
            /\ ~Me.netFail /\ ~EqId(Me.arg).error)
          => (Me.pc = "done" /\ Me.msg = "NotFound" /\ ~Issued(Me, "delete"))

\* C6: list writes nothing; on an empty store it reports the empty watchlist,
\* otherwise it outputs every stored item once, newest first (the store's
\* error when the read fails).
C6_ListNewestFirst ==
    (Me.cmd = "list")
        => /\ Me.pc = "done" /\ Me.calls = <<"select">> /\ store = hist.pre
           /\ Me.msg = IF Me.netFail THEN "RemoteError"
                       ELSE IF store = {} THEN "Empty" ELSE "Listed"
           /\ Me.msg = "Listed"
                => /\ Len(Me.listed) = Cardinality(store)
                   /\ {Me.listed[i] : i \in 1..Len(Me.listed)} = store
                   /\ \A i, j \in 1..Len(Me.listed) :
                        i < j => Me.listed[i].created_at > Me.listed[j].created_at

C6_Witness ==
    /\ Me.cmd = "list" /\ Me.msg = "Listed" /\ Len(Me.listed) > 1
    /\ \E r \in store : r.watched

\* C7: an item created by add goes through its whole life under the id that
\* list displays, whatever id the store assigned: after add on an empty store
\* list shows one unwatched item with that title; toggle of the displayed id
\* makes it watched; remove of the displayed id deletes it.
C7_Lifecycle ==
    /\ (Me.cmd = "add" /\ Me.msg = "Added" /\ hist.pre = {})
          => /\ Len(order(store)) = 1
             /\ order(store)[1].title = Me.arg
             /\ ~order(store)[1].watched
    /\ \A r \in Named(hist.pre, Me.arg) :
          /\ (Me.cmd = "toggle" /\ Me.pc = "done" /\ ~Me.netFail)
                => (Me.msg = "Toggled" /\ store = Flipped(hist.pre, r))
          /\ (Me.cmd = "remove" /\ Me.pc = "done" /\ ~Me.netFail)
                => (Me.msg = "Removed" /\ store = hist.pre \ {r})

\* C8: search writes nothing and returns exactly the stored items whose title
\* contains the query as a substring, letter case ignored and % and _ taken
\* literally; it reports "no matches" when there is none.
C8_SearchIsSubstring ==
    (Me.cmd = "search" /\ ~Me.netFail)
        => /\ Me.pc = "done" /\ store = hist.pre
           /\ Me.matches = Project({r \in store : Contains(r.title, Me.arg)})
           /\ Me.msg = IF Me.matches = {} THEN "NoMatches" ELSE "Found"

\* The rows a write of the command in hand is allowed to follow: the read
\* must have found the title absent (add) or the item present (toggle, remove).
Permits(p) ==
    IF p.cmd = "add" THEN \A r \in hist.pre : r.title # p.arg
    ELSE Named(hist.pre, p.key) # {}

\* C9: a command issues at most two remote calls, one after the other; a write
\* is issued only as the second call, after a read that returned no error and
\* the answer that permits it; after a read error nothing is written, the
\* store is as it was, and the command has ended with the error as message.
C9_ReadThenWrite ==
    /\ Len(Me.calls) <= 2
    /\ \A i \in 1..Len(Me.calls) :
          /\ i = 1 => Me.calls[i] = "select"
          /\ i = 2 => /\ Me.calls[i] \in Writes
                      /\ Me.pc = "done"
                      /\ ~Me.readErr
                      /\ Permits(Me)
    /\ Me.pc \in {"insert", "update", "delete"}
          => (Me.calls = <<"select">> /\ ~Me.readErr /\ Permits(Me))
    /\ Me.readErr
          => /\ Me.pc = "done" /\ Me.msg = "RemoteError"
             /\ Me.calls = <<"select">>
             /\ store = hist.pre

C9_Witness ==
    /\ Me.readErr /\ Me.cmd = "remove"
    /\ Named(store, Me.key) # {}

\* C10: when toggles of several clients interleave, every update that is
\* applied reports success and leaves the flag at the negation of what that
\* client had read, whatever the flag was by then, and nothing else changes a
\* flag: the last update applied decides the final value.
C10_LastWriterWins ==
    [][/\ \A c \in Clients :
            (proc[c].pc = "update" /\ proc'[c].pc = "done" /\ ~proc'[c].netFail)
                => /\ proc'[c].msg = "Toggled"
                   /\ \A r \in Named(store', proc[c].key) :
                        r.watched = ~proc[c].watched
       /\ \A r \in store : \A q \in store' :
            (r.id = q.id /\ r.watched # q.watched)
                => \E c \in Clients :
                        /\ proc[c].pc = "update" /\ proc'[c].msg = "Toggled"
                        /\ Display(r.id) = proc[c].key]_vars

\* Both toggles of one item have reported success after reading the same
\* value, and the flag is flipped once.
C10_Witness ==
    /\ \A c \in Clients : proc[c].cmd = "toggle" /\ proc[c].msg = "Toggled"
    /\ proc["c1"].key = proc["c2"].key
    /\ proc["c1"].watched = proc["c2"].watched
    /\ \E r \in Named(store, proc["c1"].key) : r.watched = ~proc["c1"].watched

====
